---- MODULE Spec2Model ----
(***************************************************************************)
(* A model of grcal, the Gregorian day-offset library (grcal.h, grcal.c).  *)
(*                                                                         *)
(* The library is three pure functions over machine integers.  The model   *)
(* translates each function statement by statement into an operator, and   *)
(* puts a client around them: a caller that owns four integer variables    *)
(* (a day offset and a year, month, day) and applies the three public      *)
(* functions to them in any order.  A call that reaches abort() ends the   *)
(* process: nothing it would have done later happens and no further call   *)
(* is made.                                                                *)
(***************************************************************************)
EXTENDS Integers, Sequences, FiniteSets, TLC

(***************************************************************************)
(* Machine integers.  int32_t and int are both 32 bits wide on the builds  *)
(* the library targets.                                                    *)
(***************************************************************************)
INT32_MIN == -2147483647 - 1
INT32_MAX == 2147483647

(***************************************************************************)
(* Constants of grcal.h and grcal.c.                                       *)
(***************************************************************************)
GRCAL_DAY_MAX == 3074323
GRCAL_DAY_UNIX == 141427

DAY_OFFSET == 139750
FIRST_MONDAY == 3
WEEK_LENGTH == 7
MONTH_COUNT == 12
MONTH_OFFSET == 2
LONG_MONTH_LENGTH == 31
SHORT_MONTH_LENGTH == 30
LEAP_MONTH_LENGTH == 29
NONLEAP_MONTH_LENGTH == 28
QC_DAYS == 146097
C_DAYS == 36524
Q_DAYS == 1461
Y_DAYS == 365
Y_LEAP_DAYS == 366
QC_C_COUNT == 4
C_Q_COUNT == 25
Q_Y_COUNT == 4
QC_YEARS == 400
C_YEARS == 100
Q_YEARS == 4
BASE_YEAR == 1200
MAX_YEAR == 9999

\* The pattern with July, the fifth March-based month, made a short month.
m_pattern_ShortJuly ==
  <<"+", "-", "+", "-", "-", "+", "-", "+", "-", "+", "+", "*">>

\* The C string "+-+-++-+-++*"; m_pattern[i] in C is m_pattern[i + 1] here.
m_pattern == <<"+", "-", "+", "-", "+", "+", "-", "+", "-", "+", "+", "*">>

(***************************************************************************)
(* abort().  A helper that reaches abort() yields Abort instead of a       *)
(* value; every caller passes it on, since the process has ended.          *)
(***************************************************************************)
Abort == -1

\* Signed overflow, which C leaves undefined, is marked in the same way.
Overflow == -2

(***************************************************************************)
(* C's / and % truncate toward zero.                                       *)
(***************************************************************************)
CDiv(a, b) == IF a >= 0 THEN a \div b ELSE -((-a) \div b)
CMod(a, b) == a - b * CDiv(a, b)

(***************************************************************************)
(* Local functions                                                         *)
(***************************************************************************)

\* isLeapYear without the century rule: every fourth year is a leap year.
isLeapYear_NoCenturyRule(y) ==
  IF y < 1 THEN Abort ELSE IF CMod(y, 4) = 0 THEN 1 ELSE 0

\* isLeapYear: 1 if leap year, 0 if not, Abort if y < 1.
isLeapYear(y) ==
  IF y < 1
    THEN Abort
    ELSE LET leapyear0 == 0
             leapyear1 == IF CMod(y, 400) = 0 THEN 1 ELSE leapyear0
             leapyear2 == IF (CMod(y, 4) = 0) /\ (CMod(y, 100) # 0)
                            THEN 1 ELSE leapyear1
         IN  leapyear2

\* monthLength: the length of March-based month i, 0 for the variable month,
\* Abort if i is out of range or the pattern holds an unknown character.
monthLength(i) ==
  IF (i < 0) \/ (i >= MONTH_COUNT)
    THEN Abort
    ELSE LET c == m_pattern[i + 1]
         IN  IF c = "+" THEN LONG_MONTH_LENGTH
             ELSE IF c = "-" THEN SHORT_MONTH_LENGTH
             ELSE IF c = "*" THEN 0
             ELSE Abort

(***************************************************************************)
(* grcal_offsetToDate                                                      *)
(***************************************************************************)

\* The successive divide-and-remainder of the shifted offset into quad
\* centuries, centuries, quad years, years and days.
Decompose(offs) ==
  LET o0 == offs + DAY_OFFSET
      qc == CDiv(o0, QC_DAYS)
      o1 == CMod(o0, QC_DAYS)
      c  == CDiv(o1, C_DAYS)
      o2 == CMod(o1, C_DAYS)
      q  == CDiv(o2, Q_DAYS)
      o3 == CMod(o2, Q_DAYS)
      y  == CDiv(o3, Y_DAYS)
      o4 == CMod(o3, Y_DAYS)
  IN  [qc |-> qc, c |-> c, q |-> q, y |-> y, d |-> o4]

\* grcal_offsetToDate without the quad century special case.
ClampCentury_Missing(r) == r

\* Special case: c is four on the leap day that ends a quad century.
ClampCentury(r) ==
  IF r.c = QC_C_COUNT
    THEN [r EXCEPT !.c = QC_C_COUNT - 1,
                   !.q = C_Q_COUNT - 1,
                   !.y = Q_Y_COUNT - 1,
                   !.d = Y_LEAP_DAYS - 1]
    ELSE r

\* grcal_offsetToDate without the quad year special case.
ClampYear_Missing(r) == r

\* Special case: y is four on the leap day that ends a quad year.
ClampYear(r) ==
  IF r.y = Q_Y_COUNT
    THEN [r EXCEPT !.y = Q_Y_COUNT - 1,
                   !.d = Y_LEAP_DAYS - 1]
    ELSE r

\* The March-based year.
MarchYear(r) ==
  (r.qc * QC_YEARS) + (r.c * C_YEARS) + (r.q * Q_YEARS) + r.y + BASE_YEAR

\* The month walk with the test d <= ml for d < ml: the first day of the
\* next month is taken for a day past the end of this one.
RECURSIVE MonthWalk_OffByOne(_, _)
MonthWalk_OffByOne(month, d) ==
  IF d > 0
    THEN LET ml == monthLength(month)
         IN  IF ml = Abort
               THEN [fault |-> TRUE, month |-> month, d |-> d]
               ELSE IF (ml = 0) \/ (d <= ml)
                 THEN [fault |-> FALSE, month |-> month, d |-> d]
                 ELSE MonthWalk_OffByOne(month + 1, d - ml)
    ELSE [fault |-> FALSE, month |-> month, d |-> d]

\* The while loop that finds the March-based month offset: walks the month
\* pattern from month, taking whole months off d.
RECURSIVE MonthWalk(_, _)
MonthWalk(month, d) ==
  IF d > 0
    THEN LET ml == monthLength(month)
         IN  IF ml = Abort
               THEN [fault |-> TRUE, month |-> month, d |-> d]
               ELSE IF (ml = 0) \/ (d < ml)
                 THEN [fault |-> FALSE, month |-> month, d |-> d]
                 ELSE MonthWalk(month + 1, d - ml)
    ELSE [fault |-> FALSE, month |-> month, d |-> d]

\* The month conversion without the carry into the year.
StandardMonth_NoCarry(year, month) ==
  LET m1 == month + MONTH_OFFSET
      m2 == IF m1 >= MONTH_COUNT THEN m1 - MONTH_COUNT ELSE m1
  IN  [year |-> year, month |-> m2 + 1]

\* The step from the March-based month offset to the one-based January-based
\* month, carrying into the year.
StandardMonth(year, month) ==
  LET m1 == month + MONTH_OFFSET
      m2 == IF m1 >= MONTH_COUNT THEN m1 - MONTH_COUNT ELSE m1
      y2 == IF m1 >= MONTH_COUNT THEN year + 1 ELSE year
  IN  [year |-> y2, month |-> m2 + 1]

\* grcal_offsetToDate.  pYear, pMonth, pDayOfMonth are TRUE for a pointer to
\* the caller's variable and FALSE for NULL; mem holds the caller's three
\* variables before the call.  The result holds them after the call, and
\* fault tells whether abort() was reached.
grcal_offsetToDate(offs, pYear, pMonth, pDayOfMonth, mem) ==
  IF (offs < 0) \/ (offs > GRCAL_DAY_MAX)
    THEN [fault |-> TRUE, year |-> mem.year, month |-> mem.month,
          day |-> mem.day]
    ELSE LET r    == ClampYear(ClampCentury(Decompose(offs)))
             w    == MonthWalk(0, r.d)
             day  == w.d + 1
             s    == StandardMonth(MarchYear(r), w.month)
         IN  IF w.fault
               THEN [fault |-> TRUE, year |-> mem.year, month |-> mem.month,
                     day |-> mem.day]
               ELSE [fault |-> FALSE,
                     year  |-> IF pYear THEN s.year ELSE mem.year,
                     month |-> IF pMonth THEN s.month ELSE mem.month,
                     day   |-> IF pDayOfMonth THEN day ELSE mem.day]

\* grcal_weekday without the week added to the offsets before the first
\* Monday.
grcal_weekday_NoWrap(offs) ==
  IF (offs < 0) \/ (offs > GRCAL_DAY_MAX)
    THEN Abort
    ELSE CMod(offs - FIRST_MONDAY, WEEK_LENGTH) + 1

\* grcal_weekday with a parameter check that has no upper bound.
grcal_weekday_NoUpperCheck(offs) ==
  IF offs < 0
    THEN Abort
    ELSE LET o1 == IF offs < FIRST_MONDAY THEN offs + WEEK_LENGTH ELSE offs
         IN  CMod(o1 - FIRST_MONDAY, WEEK_LENGTH) + 1

(***************************************************************************)
(* grcal_weekday: the weekday 1..7, or Abort.                              *)
(***************************************************************************)
grcal_weekday(offs) ==
  IF (offs < 0) \/ (offs > GRCAL_DAY_MAX)
    THEN Abort
    ELSE LET o1 == IF offs < FIRST_MONDAY THEN offs + WEEK_LENGTH ELSE offs
         IN  CMod(o1 - FIRST_MONDAY, WEEK_LENGTH) + 1

(***************************************************************************)
(* grcal_dateToOffset                                                      *)
(***************************************************************************)

\* Fail if the year is BASE_YEAR or less, or month or dayofmonth are less
\* than one.  1 to go on, 0 to fail.
CheckLower(year, month, dayofmonth) ==
  IF (year <= BASE_YEAR) \/ (month < 1) \/ (dayofmonth < 1) THEN 0 ELSE 1

\* The upper check without the month.
CheckUpper_NoMonth(year, month) ==
  IF year > MAX_YEAR THEN 0 ELSE 1

\* Fail if the year is greater than MAX_YEAR or month is greater than
\* MONTH_COUNT.
CheckUpper(year, month) ==
  IF (year > MAX_YEAR) \/ (month > MONTH_COUNT) THEN 0 ELSE 1

\* The conversion to March-based offsets without the year decrement.
MarchBased_NoBorrow(year, month) ==
  LET m1 == month - 1 - MONTH_OFFSET
  IN  IF m1 < 0
        THEN [year |-> year, month |-> m1 + MONTH_COUNT]
        ELSE [year |-> year, month |-> m1]

\* The conversion to March-based year offsets.
MarchBased(year, month) ==
  LET m1 == month - 1 - MONTH_OFFSET
  IN  IF m1 < 0
        THEN [year |-> year - 1, month |-> m1 + MONTH_COUNT]
        ELSE [year |-> year, month |-> m1]

\* The length of March-based month month of March-based year year, the
\* variable month resolved by the leap year rule; Abort if a helper aborts,
\* Overflow if year + 1 leaves the range of int.
ResolveMonthLen(year, month) ==
  LET month_len == monthLength(month)
  IN  IF month_len = Abort
        THEN Abort
        ELSE IF month_len = 0
          THEN IF year = INT32_MAX
                 THEN Overflow
                 ELSE LET leap == isLeapYear(year + 1)
                      IN  IF leap = Abort THEN Abort
                          ELSE IF leap # 0 THEN LEAP_MONTH_LENGTH
                          ELSE NONLEAP_MONTH_LENGTH
          ELSE month_len

\* The number of days from 1200-03-01 to the start of the March-based year.
YearStart(year) ==
  LET yr == year - BASE_YEAR
      qc == CDiv(yr, QC_YEARS)
      y1 == CMod(yr, QC_YEARS)
      c  == CDiv(y1, C_YEARS)
      y2 == CMod(y1, C_YEARS)
      q  == CDiv(y2, Q_YEARS)
      y  == CMod(y2, Q_YEARS)
  IN  (qc * QC_DAYS) + (c * C_DAYS) + (q * Q_DAYS) + (y * Y_DAYS)

\* The for loop that adds the lengths of the months x .. month - 1 to offs;
\* fault tells whether monthLength aborted.
RECURSIVE MonthStart(_, _, _)
MonthStart(x, month, offs) ==
  IF x < month
    THEN LET ml == monthLength(x)
         IN  IF ml = Abort
               THEN [fault |-> TRUE, offs |-> offs]
               ELSE MonthStart(x + 1, month, offs + ml)
    ELSE [fault |-> FALSE, offs |-> offs]

\* Fail if the offset is outside the allowable range.
CheckOffset(offs) ==
  IF (offs < 0) \/ (offs > GRCAL_DAY_MAX) THEN 0 ELSE 1

\* The write made whatever the status.
WriteOffset_Always(result, pOffs, offs, cur) ==
  IF pOffs THEN offs ELSE cur

\* The write of the computed offset: the value of the caller's variable after
\* the call, cur being its value before.
WriteOffset(result, pOffs, offs, cur) ==
  IF result # 0
    THEN IF pOffs THEN offs ELSE cur
    ELSE cur

\* The end of grcal_dateToOffset with the range check made only when there
\* is somewhere to write the offset.
RangeCheckAndWrite_CheckOnlyToWrite(pOffs, offs, cur) ==
  LET result == IF pOffs THEN CheckOffset(offs) ELSE 1
  IN  [fault |-> "none", result |-> result,
       offs |-> WriteOffset(result, pOffs, offs, cur)]

\* The end of grcal_dateToOffset: the range check of the computed offset,
\* the write through pOffs, and the status returned.
RangeCheckAndWrite(pOffs, offs, cur) ==
  LET result == CheckOffset(offs)
  IN  [fault |-> "none", result |-> result,
       offs |-> WriteOffset(result, pOffs, offs, cur)]

\* grcal_dateToOffset.  pOffs is TRUE for a pointer to the caller's variable
\* and FALSE for NULL; cur is that variable's value before the call.  The
\* result holds the return value, the variable's value after the call, and
\* fault: "abort" if abort() was reached, "overflow" if a signed int
\* computation left the range of int, else "none".
grcal_dateToOffset(pOffs, year, month, dayofmonth, cur) ==
  LET r1 == CheckLower(year, month, dayofmonth)
      r2 == IF r1 # 0 THEN CheckUpper(year, month) ELSE r1
  IN  IF r2 = 0
        THEN [fault |-> "none", result |-> 0,
              offs |-> WriteOffset(0, pOffs, 0, cur)]
        ELSE
          LET dom == dayofmonth - 1
              mb  == MarchBased(year, month)
              ml  == ResolveMonthLen(mb.year, mb.month)
          IN  IF \/ dayofmonth = INT32_MIN
                 \/ month < INT32_MIN + 1 + MONTH_OFFSET
                 \/ (month - 1 - MONTH_OFFSET < 0 /\ year = INT32_MIN)
                 \/ ml = Overflow
                THEN [fault |-> "overflow", result |-> 0, offs |-> cur]
              ELSE IF ml = Abort
                THEN [fault |-> "abort", result |-> 0, offs |-> cur]
              ELSE IF dom >= ml
                THEN [fault |-> "none", result |-> 0,
                      offs |-> WriteOffset(0, pOffs, 0, cur)]
              ELSE
                LET o1 == YearStart(mb.year)
                    ms == MonthStart(0, mb.month, o1)
                    o2 == ms.offs
                    o3 == o2 + dom
                    o4 == o3 - DAY_OFFSET
                IN  IF ms.fault
                      THEN [fault |-> "abort", result |-> 0, offs |-> cur]
                    ELSE RangeCheckAndWrite(pOffs, o4, cur)

(***************************************************************************)
(* grcal_query.c: parseInt                                                 *)
(*                                                                         *)
(* A C string is a sequence of characters, its end the terminating zero.   *)
(***************************************************************************)

\* The characters argument strings are made of, with their codes.
CharCode ==
  (" " :> 32) @@ ("+" :> 43) @@ ("-" :> 45) @@ ("/" :> 47) @@ ("0" :> 48)
    @@ ("1" :> 49) @@ ("2" :> 50) @@ ("3" :> 51) @@ ("4" :> 52)
    @@ ("5" :> 53) @@ ("6" :> 54) @@ ("7" :> 55) @@ ("8" :> 56)
    @@ ("9" :> 57) @@ (":" :> 58) @@ ("a" :> 97)

\* int32_t multiplication and addition of non-negative operands: Overflow
\* when the product or sum is not an int32_t.
Mul32(a, b) == IF a > INT32_MAX \div b THEN Overflow ELSE a * b

Add32(a, b) == IF a > INT32_MAX - b THEN Overflow ELSE a + b

\* The guard of the multiplication by ten.
MulGuard(result) == result <= INT32_MAX \div 10

\* The guard of the addition of the digit.
AddGuard(result, d) == result <= INT32_MAX - d

\* The for loop over the digits, from the character at index i (1-based).
RECURSIVE ParseDigits(_, _, _)
ParseDigits(pstr, i, result) ==
  IF i > Len(pstr)
    THEN [status |-> 1, result |-> result, fault |-> "none"]
    ELSE
      LET ch == CharCode[pstr[i]]
          d  == ch - CharCode["0"]
      IN  IF (ch < CharCode["0"]) \/ (ch > CharCode["9"])
            THEN [status |-> 0, result |-> result, fault |-> "none"]
          ELSE IF ~MulGuard(result)
            THEN [status |-> 0, result |-> result, fault |-> "none"]
          ELSE IF Mul32(result, 10) = Overflow
            THEN [status |-> 0, result |-> result, fault |-> "overflow"]
          ELSE IF ~AddGuard(Mul32(result, 10), d)
            THEN [status |-> 0, result |-> Mul32(result, 10),
                  fault |-> "none"]
          ELSE IF Add32(Mul32(result, 10), d) = Overflow
            THEN [status |-> 0, result |-> result, fault |-> "overflow"]
          ELSE ParseDigits(pstr, i + 1, Add32(Mul32(result, 10), d))

\* parseInt.  cur is the value of *pv before the call; the result holds the
\* status returned, the value of *pv after the call, and fault.
parseInt(pstr, cur) ==
  LET signed  == (Len(pstr) > 0) /\ (pstr[1] \in {"+", "-"})
      negflag == IF (Len(pstr) > 0) /\ (pstr[1] = "-") THEN 1 ELSE 0
      first   == IF signed THEN 2 ELSE 1
  IN  IF first > Len(pstr)
        THEN [status |-> 0, pv |-> cur, fault |-> "none"]
        ELSE
          LET r == ParseDigits(pstr, first, 0)
              result == IF (r.status # 0) /\ (negflag # 0)
                          THEN -(r.result) ELSE r.result
          IN  [status |-> r.status,
               pv |-> IF r.status # 0 THEN result ELSE cur,
               fault |-> r.fault]

(***************************************************************************)
(* grcal_query.c: main                                                     *)
(***************************************************************************)
DAY_NAMES == <<"Mon", "Tue", "Wed", "Thu", "Fri", "Sat", "Sun">>

\* Must have either one additional parameter or three.
ArgCountOk(argc) == ~((argc # 2) /\ (argc # 4))

\* The range check of the day offset with no upper bound.
OffsetArgInRange_NoUpper(in_offs) == ~(in_offs < 0)

\* The range check of the day offset.
OffsetArgInRange(in_offs) == ~((in_offs < 0) \/ (in_offs > GRCAL_DAY_MAX))

\* The basic range checks of the year, month and day.
YearArgInRange(in_year) == ~((in_year < 0) \/ (in_year > 9999))

MonthArgInRange(in_month) == ~((in_month < 1) \/ (in_month > 12))

DayArgInRange(in_day) == ~((in_day < 1) \/ (in_day > 31))

(***************************************************************************)
(* Bounds of the model.                                                    *)
(***************************************************************************)

\* Offsets are taken up to Window days either side of every anchor day.
Window == 1

\* Months and days of month are taken up to Margin beyond each end of their
\* valid ranges, and years up to Margin either side of every anchor year.
Margin == 1

(***************************************************************************)
(* The inputs.                                                             *)
(***************************************************************************)

\* March-based years, as (quad century, century, quad year, year) counts
\* from 1200.  FullYears are sampled at every month start: 1582, 1600, a
\* year whose February is a leap day ending a quad year (1603), ending a
\* century without a leap day (1699), ending a quad century (1999), and
\* 9998, the last whole March-based year.
FullYears ==
  {<<0, 3, 20, 2>>, <<1, 0, 0, 0>>, <<1, 0, 0, 3>>, <<1, 0, 24, 3>>,
   <<1, 3, 24, 3>>, <<21, 3, 24, 2>>}

\* EdgeYears are sampled at their first and last day: the first and last
\* year of the first and last quad year of the first, second and last
\* century of three quad centuries.
EdgeYears == {1, 2, 21} \X {0, 1, 3} \X {0, 24} \X {0, 3}

\* Day of the March-based year on which each month starts, and the leap day.
MonthAnchors == {0, 31, 61, 92, 122, 153, 184, 214, 245, 275, 306, 337, 365}

BlockStart(b) ==
  (b[1] * QC_DAYS) + (b[2] * C_DAYS) + (b[3] * Q_DAYS) + (b[4] * Y_DAYS)
    - DAY_OFFSET

OffsetAnchors ==
  {0, FIRST_MONDAY, GRCAL_DAY_UNIX, GRCAL_DAY_MAX}
    \cup { BlockStart(b) + a : b \in FullYears, a \in MonthAnchors }
    \cup { BlockStart(b) + a : b \in EdgeYears, a \in {0, 365} }

OffsetInputs ==
  {INT32_MIN, INT32_MAX}
    \cup { a + k : a \in OffsetAnchors, k \in (-Window) .. Window }

YearInputs ==
  {1582, 1600, 1900, 1970, 2000, 2023, 2024}
    \cup ((BASE_YEAR - Margin) .. (BASE_YEAR + Margin))
    \cup ((MAX_YEAR - Margin) .. (MAX_YEAR + Margin))

MonthInputs == (1 - Margin) .. (MONTH_COUNT + Margin)

DayInputs ==
  {14, 15}
    \cup ((1 - Margin) .. (1 + Margin))
    \cup ((NONLEAP_MONTH_LENGTH - Margin) .. (LONG_MONTH_LENGTH + Margin))

\* Values at and near the ends of int, zero, and the least valid values.
ExtremeInputs == {INT32_MIN, INT32_MIN + 1, -1, 0, 1, 1201, INT32_MAX}

DateInputs ==
  (YearInputs \X MonthInputs \X DayInputs)
    \cup (ExtremeInputs \X ExtremeInputs \X ExtremeInputs)

\* What the caller's offset variable holds before any call writes it.
DestInputs == {-1}

(***************************************************************************)
(* The client.                                                             *)
(*   offs, year, month, day  the caller's variables                        *)
(*   ret       the value the last call returned (0 for a void function)    *)
(*   last      the function last called                                    *)
(*   nullArgs  the pointer parameters of the last call that were NULL      *)
(*   fault     "abort" once abort() was reached, "overflow" once a signed  *)
(*             computation overflowed, else "none"                         *)
(*   proc      the grcal_query process: its arguments, the locals of main, *)
(*             what it printed and its exit status                         *)
(***************************************************************************)
VARIABLES offs, year, month, day, ret, last, nullArgs, fault, proc

vars == <<offs, year, month, day, ret, last, nullArgs, fault, proc>>

\* main before its first statement, with arguments argv (argv[1] the module
\* name): the locals as initialised.
MainEntry(argv) ==
  [pc |-> "start", argv |-> argv, status |-> 1,
   in_offs |-> 0, in_year |-> 0, in_month |-> 0, in_day |-> 0,
   o_offs |-> 0, o_year |-> 0, o_month |-> 0, o_day |-> 0, o_wkday |-> 0,
   stdout |-> <<>>, stderr |-> <<>>, exit |-> 0, fault |-> "none"]

\* No grcal_query process: the library is used by a caller of its own.
NoProcess == MainEntry(<<>>)

\* The caller starts with an offset to convert, or with a date to convert.
Init ==
  /\ \/ /\ offs \in OffsetInputs
        /\ year = 0 /\ month = 0 /\ day = 0
     \/ /\ offs \in DestInputs
        /\ \E dt \in DateInputs :
             year = dt[1] /\ month = dt[2] /\ day = dt[3]
  /\ ret = 0
  /\ last = "none"
  /\ nullArgs = {}
  /\ fault = "none"
  /\ proc = NoProcess

\* A call grcal_offsetToDate(offs, pYear, pMonth, pDayOfMonth).
OffsetToDate ==
  /\ fault = "none"
  /\ \E pYear \in BOOLEAN, pMonth \in BOOLEAN, pDayOfMonth \in BOOLEAN :
       LET r == grcal_offsetToDate(offs, pYear, pMonth, pDayOfMonth,
                  [year |-> year, month |-> month, day |-> day])
       IN  /\ fault' = IF r.fault THEN "abort" ELSE "none"
           /\ year' = r.year
           /\ month' = r.month
           /\ day' = r.day
           /\ ret' = IF r.fault THEN ret ELSE 0
           /\ nullArgs' = {a \in {"pYear", "pMonth", "pDayOfMonth"} :
                             \/ (a = "pYear" /\ ~pYear)
                             \/ (a = "pMonth" /\ ~pMonth)
                             \/ (a = "pDayOfMonth" /\ ~pDayOfMonth)}
  /\ last' = "offsetToDate"
  /\ UNCHANGED <<offs, proc>>

\* A call ret = grcal_dateToOffset(pOffs, year, month, day).
DateToOffset ==
  /\ fault = "none"
  /\ \E pOffs \in BOOLEAN :
       LET r == grcal_dateToOffset(pOffs, year, month, day, offs)
       IN  /\ fault' = r.fault
           /\ offs' = r.offs
           /\ ret' = IF r.fault = "none" THEN r.result ELSE ret
           /\ nullArgs' = IF pOffs THEN {} ELSE {"pOffs"}
  /\ last' = "dateToOffset"
  /\ UNCHANGED <<year, month, day, proc>>

\* A call ret = grcal_weekday(offs).
Weekday ==
  /\ fault = "none"
  /\ LET r == grcal_weekday(offs)
     IN  /\ fault' = IF r = Abort THEN "abort" ELSE "none"
         /\ ret' = IF r = Abort THEN ret ELSE r
  /\ last' = "weekday"
  /\ nullArgs' = {}
  /\ UNCHANGED <<offs, year, month, day, proc>>

Next == OffsetToDate \/ DateToOffset \/ Weekday

Spec == Init /\ [][Next]_vars

(***************************************************************************)
(* The grcal_query process.                                                *)
(***************************************************************************)

\* The greatest number of arguments after the module name.
MaxArgs == 4

DigitChars == <<"0", "1", "2", "3", "4", "5", "6", "7", "8", "9">>

\* The decimal text of a natural number.
RECURSIVE Text(_)
Text(n) ==
  IF n < 10 THEN <<DigitChars[n + 1]>>
  ELSE Text(n \div 10) \o <<DigitChars[(n % 10) + 1]>>

\* Texts that are no int32_t: empty, a sign alone, not all digits, and
\* digits beyond the greatest int32_t.
BadTexts ==
  {<<>>, <<"+">>, <<"-">>, <<"-", "-", "1">>, <<"+", "-", "1">>,
   <<"1", "a">>, <<"a">>, <<" ", "1">>, <<"1", " ">>, <<"/">>, <<":">>,
   <<"1", "/">>, <<"1", ":">>,
   Text(214748364) \o <<"8">>, <<"-">> \o Text(214748364) \o <<"8">>,
   Text(214748365) \o <<"0">>, Text(INT32_MAX) \o <<"0">>,
   <<"0">> \o Text(INT32_MAX) \o <<"1">>}

\* Texts of one argument: day offsets in and out of range, signed and with
\* leading zeros, and the bad texts.
OffsetTexts ==
  BadTexts
    \cup { Text(n) : n \in {0, 1, 2, 3, GRCAL_DAY_UNIX, GRCAL_DAY_MAX - 1,
                            GRCAL_DAY_MAX, GRCAL_DAY_MAX + 1, INT32_MAX} }
    \cup { <<"-">> \o Text(n) : n \in {0, 1, INT32_MAX} }
    \cup { <<"+">> \o Text(n) : n \in {0, GRCAL_DAY_MAX, GRCAL_DAY_MAX + 1} }
    \cup { <<"0", "0">> \o Text(n) : n \in {0, 7, GRCAL_DAY_MAX, INT32_MAX} }

YearTexts ==
  { Text(n) : n \in {0, 1200, 1201, 1582, 1900, 2000, 2023, 9999, 10000} }
    \cup {<<"-", "1">>, <<"+", "2", "0", "2", "4">>, <<"2", "0", "a">>,
          Text(INT32_MAX) \o <<"0">>}

MonthTexts ==
  { Text(n) : n \in {0, 1, 2, 4, 10, 12, 13} }
    \cup {<<"-", "2">>, <<"0", "2">>, <<>>, Text(214748364) \o <<"8">>}

DayTexts ==
  { Text(n) : n \in {0, 1, 14, 15, 28, 29, 30, 31, 32} }
    \cup {<<"-", "1">>, <<"+", "1">>, <<"+">>, Text(INT32_MAX)}

\* The argument vectors: none at all, the module name alone, one argument,
\* three arguments, and every other number of arguments up to MaxArgs.
ArgvInputs ==
  {<<>>}
    \cup { <<"grcal_query">> \o <<t>> : t \in OffsetTexts }
    \cup { <<"grcal_query">> \o <<y, m, d>> :
             y \in YearTexts, m \in MonthTexts, d \in DayTexts }
    \cup { <<"grcal_query">> \o [i \in 1 .. n |-> Text(i)] :
             n \in (0 .. MaxArgs) \ {1, 3} }

libVars == <<offs, year, month, day, ret, last, nullArgs, fault>>

\* The process starts with its arguments; no other caller uses the library.
InitCli ==
  /\ offs = 0 /\ year = 0 /\ month = 0 /\ day = 0
  /\ ret = 0 /\ last = "none" /\ nullArgs = {} /\ fault = "none"
  /\ \E argv \in ArgvInputs : proc = MainEntry(argv)

\* main up to the check of the number of parameters.
MainCheckArgs ==
  /\ proc.pc = "start"
  /\ LET argc == Len(proc.argv)
     IN  IF ~ArgCountOk(argc)
           THEN proc' = [proc EXCEPT !.pc = "return", !.status = 0,
                           !.stderr = <<"Wrong number of parameters!">>]
           ELSE proc' = [proc EXCEPT !.pc = IF argc = 2 THEN "offset"
                                            ELSE "date"]
  /\ UNCHANGED libVars

\* One parameter: parse it and check the range of the day offset.
MainParseOffset ==
  /\ proc.pc = "offset"
  /\ LET p == parseInt(proc.argv[2], proc.in_offs)
     IN  IF p.fault # "none"
           THEN proc' = [proc EXCEPT !.pc = "aborted", !.fault = p.fault]
         ELSE IF p.status = 0
           THEN proc' = [proc EXCEPT !.pc = "return", !.status = 0,
                           !.stderr = <<"Could not parse parameter!">>]
         ELSE IF ~OffsetArgInRange(p.pv)
           THEN proc' = [proc EXCEPT !.pc = "return", !.status = 0,
                           !.in_offs = p.pv,
                           !.stderr = <<"Day offset out of range!">>]
         ELSE proc' = [proc EXCEPT !.pc = "convertOffset",
                         !.in_offs = p.pv]
  /\ UNCHANGED libVars

\* Convert the offset to date and weekday and print the result.
MainConvertOffset ==
  /\ proc.pc = "convertOffset"
  /\ LET r  == grcal_offsetToDate(proc.in_offs, TRUE, TRUE, TRUE,
                 [year |-> proc.o_year, month |-> proc.o_month,
                  day |-> proc.o_day])
         wk == grcal_weekday(proc.in_offs)
     IN  IF r.fault \/ (wk = Abort)
           THEN proc' = [proc EXCEPT !.pc = "aborted", !.fault = "abort"]
         ELSE IF (wk - 1 < 0) \/ (wk - 1 > 6)
           THEN proc' = [proc EXCEPT !.pc = "aborted",
                           !.fault = "undefined"]
         ELSE proc' = [proc EXCEPT !.pc = "return",
                         !.o_year = r.year, !.o_month = r.month,
                         !.o_day = r.day, !.o_wkday = wk,
                         !.stdout = <<r.year, r.month, r.day,
                                      DAY_NAMES[(wk - 1) + 1]>>]
  /\ UNCHANGED libVars

\* Three parameters: parse them and check their basic ranges.
MainParseDate ==
  /\ proc.pc = "date"
  /\ LET py == parseInt(proc.argv[2], proc.in_year)
         pm == parseInt(proc.argv[3], proc.in_month)
         pd == parseInt(proc.argv[4], proc.in_day)
     IN  IF py.fault # "none"
           THEN proc' = [proc EXCEPT !.pc = "aborted", !.fault = py.fault]
         ELSE IF py.status = 0
           THEN proc' = [proc EXCEPT !.pc = "return", !.status = 0,
                           !.stderr = <<"Could not parse year!">>]
         ELSE IF pm.fault # "none"
           THEN proc' = [proc EXCEPT !.pc = "aborted", !.fault = pm.fault]
         ELSE IF pm.status = 0
           THEN proc' = [proc EXCEPT !.pc = "return", !.status = 0,
                           !.in_year = py.pv,
                           !.stderr = <<"Could not parse month!">>]
         ELSE IF pd.fault # "none"
           THEN proc' = [proc EXCEPT !.pc = "aborted", !.fault = pd.fault]
         ELSE IF pd.status = 0
           THEN proc' = [proc EXCEPT !.pc = "return", !.status = 0,
                           !.in_year = py.pv, !.in_month = pm.pv,
                           !.stderr = <<"Could not parse day!">>]
         ELSE
           LET parsed == [proc EXCEPT !.in_year = py.pv,
                            !.in_month = pm.pv, !.in_day = pd.pv]
           IN  IF ~YearArgInRange(py.pv)
                 THEN proc' = [parsed EXCEPT !.pc = "return", !.status = 0,
                                 !.stderr = <<"Year is out of range!">>]
               ELSE IF ~MonthArgInRange(pm.pv)
                 THEN proc' = [parsed EXCEPT !.pc = "return", !.status = 0,
                                 !.stderr = <<"Month is out of range!">>]
               ELSE IF ~DayArgInRange(pd.pv)
                 THEN proc' = [parsed EXCEPT !.pc = "return", !.status = 0,
                                 !.stderr = <<"Day is out of range!">>]
               ELSE proc' = [parsed EXCEPT !.pc = "convertDate"]
  /\ UNCHANGED libVars

\* Attempt to convert the date to an offset and print the result.
MainConvertDate ==
  /\ proc.pc = "convertDate"
  /\ LET r == grcal_dateToOffset(TRUE, proc.in_year, proc.in_month,
                proc.in_day, proc.o_offs)
     IN  IF r.fault # "none"
           THEN proc' = [proc EXCEPT !.pc = "aborted", !.fault = r.fault]
         ELSE IF r.result = 0
           THEN proc' = [proc EXCEPT !.pc = "return", !.status = 0,
                           !.o_offs = r.offs,
                           !.stderr = <<"Date is not valid!">>]
         ELSE proc' = [proc EXCEPT !.pc = "return", !.o_offs = r.offs,
                         !.stdout = <<r.offs>>]
  /\ UNCHANGED libVars

\* Invert status and return.
MainReturn ==
  /\ proc.pc = "return"
  /\ proc' = [proc EXCEPT !.pc = "exited",
                !.exit = IF proc.status # 0 THEN 0 ELSE 1]
  /\ UNCHANGED libVars

NextCli ==
  \/ MainCheckArgs
  \/ MainParseOffset
  \/ MainConvertOffset
  \/ MainParseDate
  \/ MainConvertDate
  \/ MainReturn

SpecCli == InitCli /\ [][NextCli]_vars

(***************************************************************************)
(* The Gregorian calendar, stated independently of the library: what the   *)
(* properties below compare the library with.                              *)
(***************************************************************************)
GregorianLeap(y) == (y % 400 = 0) \/ ((y % 4 = 0) /\ (y % 100 # 0))

DaysInMonth(y, m) ==
  IF m = 2 THEN (IF GregorianLeap(y) THEN 29 ELSE 28)
  ELSE IF m \in {4, 6, 9, 11} THEN 30
  ELSE 31

\* A real date of the Gregorian calendar from 1582-10-15 to 9999-12-31.
IsGregorianDate(y, m, d) ==
  /\ y >= 1582 /\ y <= 9999
  /\ m >= 1 /\ m <= 12
  /\ d >= 1 /\ d <= DaysInMonth(y, m)
  /\ (y > 1582) \/ (m > 10) \/ (m = 10 /\ d >= 15)

ValidOffset(o) == (o >= 0) /\ (o <= GRCAL_DAY_MAX)

\* The dates one year either side of y.
NearDates(y) == ((y - 1) .. (y + 1)) \X (1 .. 12) \X (1 .. 31)

NoMem == [year |-> 0, month |-> 0, day |-> 0]

(***************************************************************************)
(* Properties                                                              *)
(***************************************************************************)

\* C1: for every offset o in [0, 3074323], the date grcal_offsetToDate
\* yields for o is composed by grcal_dateToOffset back to exactly o, and no
\* other date composes to o.
RoundTripOffset ==
  (last = "offsetToDate" /\ nullArgs = {} /\ ValidOffset(offs)) =>
    /\ fault = "none"
    /\ LET r == grcal_dateToOffset(TRUE, year, month, day, -1)
       IN  r.fault = "none" /\ r.result # 0 /\ r.offs = offs
    /\ \A dt \in NearDates(year) :
         LET q == grcal_dateToOffset(TRUE, dt[1], dt[2], dt[3], -1)
         IN  (q.fault = "none" /\ q.result # 0 /\ q.offs = offs)
               => dt = <<year, month, day>>

\* A leap day that ends a quad century has been decomposed.
RoundTripOffsetWitness ==
  /\ last = "offsetToDate" /\ nullArgs = {} /\ fault = "none"
  /\ ValidOffset(offs)
  /\ year = 2000 /\ month = 2 /\ day = 29

\* C2: for every date on which grcal_dateToOffset succeeds with offset o,
\* grcal_offsetToDate of o is exactly that date.
RoundTripDate ==
  (last = "dateToOffset" /\ fault = "none" /\ ret # 0 /\ nullArgs = {}) =>
    LET r == grcal_offsetToDate(offs, TRUE, TRUE, TRUE, NoMem)
    IN  ~r.fault /\ r.year = year /\ r.month = month /\ r.day = day

\* A date in January, which belongs to the March-based year before, has
\* been composed.
RoundTripDateWitness ==
  /\ last = "dateToOffset" /\ fault = "none" /\ ret # 0 /\ nullArgs = {}
  /\ year = 2024 /\ month = 1 /\ day = 31

\* C3: grcal_dateToOffset succeeds exactly on the real Gregorian dates from
\* 1582-10-15 to 9999-12-31; 2000-02-29 succeeds, and 1900-02-29,
\* 1582-10-14, 1200-01-01, 2023-13-01 and 2023-04-31 fail.
AcceptsExactlyGregorianDates ==
  (last = "dateToOffset") =>
    /\ IsGregorianDate(year, month, day) => (fault = "none" /\ ret # 0)
    /\ (~IsGregorianDate(year, month, day) /\ fault = "none") => ret = 0
    /\ (<<year, month, day>> = <<2000, 2, 29>>) => ret # 0
    /\ (<<year, month, day>> \in {<<1900, 2, 29>>, <<1582, 10, 14>>,
          <<1200, 1, 1>>, <<2023, 13, 1>>, <<2023, 4, 31>>}) => ret = 0

\* February 29 of a century year that is not a leap year has been refused.
AcceptsExactlyGregorianDatesWitness ==
  /\ last = "dateToOffset" /\ fault = "none" /\ ret = 0
  /\ year = 1900 /\ month = 2 /\ day = 29

\* C4: grcal_dateToOffset returns a status for every integer triple and
\* never reaches abort(): monthLength is only called with an index in
\* [0, 11] and isLeapYear with a year of at least 1.
DateToOffsetIsTotal ==
  (last = "dateToOffset") => (fault = "none" /\ ret \in {0, 1})

\* The call has been made with the greatest int as month.
DateToOffsetIsTotalWitness ==
  /\ last = "dateToOffset" /\ fault = "none"
  /\ year = 1201 /\ month = INT32_MAX /\ day = 1

\* C5: grcal_offsetToDate maps 0 to 1582-10-15, 141427 to 1970-01-01 and
\* 3074323 to 9999-12-31.
BoundaryDates ==
  (last = "offsetToDate" /\ nullArgs = {}) =>
    /\ (offs = 0) => <<fault, year, month, day>> = <<"none", 1582, 10, 15>>
    /\ (offs = GRCAL_DAY_UNIX)
         => <<fault, year, month, day>> = <<"none", 1970, 1, 1>>
    /\ (offs = GRCAL_DAY_MAX)
         => <<fault, year, month, day>> = <<"none", 9999, 12, 31>>

\* The greatest offset has been decomposed.
BoundaryDatesWitness ==
  /\ last = "offsetToDate" /\ nullArgs = {} /\ fault = "none"
  /\ offs = GRCAL_DAY_MAX

\* C6: for every offset in [0, 3074323], grcal_offsetToDate does not reach
\* abort(), and the year it returns is in [1582, 9999], the month in
\* [1, 12] and the day in [1, length of that month in that year].
DateInRange ==
  (last = "offsetToDate" /\ ValidOffset(offs)) =>
    /\ fault = "none"
    /\ ("pYear" \notin nullArgs) => (year >= 1582 /\ year <= 9999)
    /\ ("pMonth" \notin nullArgs) => (month >= 1 /\ month <= 12)
    /\ ("pDayOfMonth" \notin nullArgs) => (day >= 1 /\ day <= 31)
    /\ (nullArgs = {}) => (day <= DaysInMonth(year, month))

\* The last day of a February that is not in a leap year has been
\* decomposed.
DateInRangeWitness ==
  /\ last = "offsetToDate" /\ nullArgs = {} /\ fault = "none"
  /\ ValidOffset(offs)
  /\ year = 1700 /\ month = 2 /\ day = 28

\* C7: for every offset o in [0, 3074323], grcal_weekday(o) is in 1..7,
\* grcal_weekday(0) is 5, and the weekday of o + 1, when that is in range,
\* is (grcal_weekday(o) mod 7) + 1.
WeekdayCycle ==
  (last = "weekday" /\ ValidOffset(offs)) =>
    /\ fault = "none"
    /\ ret \in 1 .. 7
    /\ (offs = 0) => ret = 5
    /\ (offs + 1 <= GRCAL_DAY_MAX)
         => grcal_weekday(offs + 1) = (ret % 7) + 1

\* The weekday of offset 2, the last one that takes the wrap branch, has
\* been computed: a Sunday, followed by a Monday.
WeekdayCycleWitness ==
  /\ last = "weekday" /\ fault = "none"
  /\ offs = 2 /\ ret = 7

\* C8: a call of grcal_dateToOffset that fails leaves the caller's offset
\* variable as it was, and one that succeeds and writes it writes a value
\* in [0, 3074323].
WritesOnlyOnSuccess ==
  [][ (last' = "dateToOffset") =>
        /\ (fault' # "none" \/ ret' = 0) => offs' = offs
        /\ (fault' = "none" /\ ret' # 0 /\ nullArgs' = {})
             => ValidOffset(offs')
        /\ (nullArgs' # {}) => offs' = offs ]_vars

\* A date one day before the first supported day has been refused, with the
\* caller's variable still holding what it held before.
WritesOnlyOnSuccessWitness ==
  /\ last = "dateToOffset" /\ fault = "none" /\ ret = 0 /\ nullArgs = {}
  /\ year = 1582 /\ month = 10 /\ day = 14
  /\ offs \in DestInputs

\* C9: grcal_dateToOffset gives the same verdict with NULL for pOffs as
\* with a pointer.
SameVerdictWithoutDestination ==
  (last = "dateToOffset") =>
    LET other == grcal_dateToOffset("pOffs" \in nullArgs, year, month, day,
                   offs)
    IN  /\ other.fault = fault
        /\ (fault = "none") => other.result = ret

\* A date has been validated with NULL for pOffs and refused only by the
\* range check of the computed offset.
SameVerdictWithoutDestinationWitness ==
  /\ last = "dateToOffset" /\ fault = "none" /\ nullArgs = {"pOffs"}
  /\ ret = 0
  /\ year = 1582 /\ month = 10 /\ day = 14

\* C10: grcal_offsetToDate and grcal_weekday called with an offset below 0
\* or above 3074323 reach abort(), return nothing and write nothing.
OutOfRangeOffsetAborts ==
  [][ (last' \in {"offsetToDate", "weekday"} /\ ~ValidOffset(offs)) =>
        /\ fault' = "abort"
        /\ UNCHANGED <<offs, year, month, day, ret>> ]_vars

\* grcal_weekday has been called with the offset after the greatest one.
OutOfRangeOffsetAbortsWitness ==
  /\ last = "weekday" /\ fault = "abort"
  /\ offs = GRCAL_DAY_MAX + 1

\* The remainder of the shifted offset within its quad century, and within
\* its quad year.
QuadCenturyRemainder(o) == (o + DAY_OFFSET) % QC_DAYS

QuadYearRemainder(o) == ((QuadCenturyRemainder(o)) % C_DAYS) % Q_DAYS

\* One of the two special cases of grcal_offsetToDate applies to offset o.
ClampApplied(o) ==
  \/ Decompose(o).c = QC_C_COUNT
  \/ ClampCentury(Decompose(o)).y = Q_Y_COUNT

\* C12: for offsets in [0, 3074323], the century quotient is 4 only on the
\* last day of a quad century (remainder 146096), the year quotient is 4
\* only on the last day of a quad year (remainder 1460), a special case
\* applies exactly when the date returned is February 29, and then the year
\* returned is a leap year.
ClampsAreLeapDays ==
  (last = "offsetToDate" /\ nullArgs = {} /\ ValidOffset(offs)) =>
    /\ fault = "none"
    /\ (Decompose(offs).c = QC_C_COUNT)
         => QuadCenturyRemainder(offs) = QC_DAYS - 1
    /\ (Decompose(offs).y = Q_Y_COUNT)
         => QuadYearRemainder(offs) = Q_DAYS - 1
    /\ ClampApplied(offs) <=> (month = 2 /\ day = 29)
    /\ ClampApplied(offs) => GregorianLeap(year)

\* The last day of a quad century, where the century quotient is 4, has
\* been decomposed.
ClampsAreLeapDaysWitness ==
  /\ last = "offsetToDate" /\ nullArgs = {} /\ fault = "none"
  /\ ValidOffset(offs)
  /\ Decompose(offs).c = QC_C_COUNT
  /\ month = 2 /\ day = 29

\* The day after year-month-day in the Gregorian calendar.
NextDate(y, m, d) ==
  IF d < DaysInMonth(y, m) THEN <<y, m, d + 1>>
  ELSE IF m < 12 THEN <<y, m + 1, 1>>
  ELSE <<y + 1, 1, 1>>

\* Lexicographic order on (year, month, day).
DateBefore(a, b) ==
  \/ a[1] < b[1]
  \/ (a[1] = b[1] /\ a[2] < b[2])
  \/ (a[1] = b[1] /\ a[2] = b[2] /\ a[3] < b[3])

\* C13: for every offset o in [0, 3074322], grcal_offsetToDate of o + 1 is
\* the calendar day after grcal_offsetToDate of o: the next day of the
\* month, or the first of the next month after the last day of a month, or
\* January 1 of the next year after December 31; so the date of o + 1 is
\* later in (year, month, day) order.
ConsecutiveDays ==
  (last = "offsetToDate" /\ nullArgs = {} /\ ValidOffset(offs)
     /\ offs + 1 <= GRCAL_DAY_MAX) =>
    LET n == grcal_offsetToDate(offs + 1, TRUE, TRUE, TRUE, NoMem)
    IN  /\ fault = "none" /\ ~n.fault
        /\ <<n.year, n.month, n.day>> = NextDate(year, month, day)
        /\ DateBefore(<<year, month, day>>, <<n.year, n.month, n.day>>)

\* A December 31 has been decomposed.
ConsecutiveDaysWitness ==
  /\ last = "offsetToDate" /\ nullArgs = {} /\ fault = "none"
  /\ ValidOffset(offs) /\ offs + 1 <= GRCAL_DAY_MAX
  /\ year = 1999 /\ month = 12 /\ day = 31

\* An optionally signed decimal integer, stated independently of parseInt.
Unsigned(t) == IF (t # <<>>) /\ (Head(t) \in {"+", "-"}) THEN Tail(t) ELSE t

RECURSIVE StripZeros(_)
StripZeros(t) ==
  IF (Len(t) > 1) /\ (Head(t) = "0") THEN StripZeros(Tail(t)) ELSE t

DigitValue(c) == CHOOSE k \in 0 .. 9 : DigitChars[k + 1] = c

\* Digit sequences a and b of the same length: a is at most b.
RECURSIVE DigitsAtMost(_, _)
DigitsAtMost(a, b) ==
  IF a = <<>> THEN TRUE
  ELSE IF DigitValue(Head(a)) # DigitValue(Head(b))
    THEN DigitValue(Head(a)) < DigitValue(Head(b))
  ELSE DigitsAtMost(Tail(a), Tail(b))

\* t is an optionally signed decimal integer of magnitude at most 2^31 - 1.
IsInt32Text(t) ==
  LET u == Unsigned(t)
      z == StripZeros(u)
  IN  /\ u # <<>>
      /\ \A i \in 1 .. Len(u) : u[i] \in {DigitChars[k] : k \in 1 .. 10}
      /\ \/ Len(z) < 10
         \/ (Len(z) = 10 /\ DigitsAtMost(z, Text(INT32_MAX)))

RECURSIVE Magnitude(_)
Magnitude(z) ==
  IF z = <<>> THEN 0
  ELSE (10 * Magnitude(SubSeq(z, 1, Len(z) - 1))) + DigitValue(z[Len(z)])

TextValue(t) ==
  LET v == Magnitude(StripZeros(Unsigned(t)))
  IN  IF Head(t) = "-" THEN -v ELSE v

\* The exit status the arguments call for.
ExpectedExit(argv) ==
  IF /\ Len(argv) = 2
     /\ IsInt32Text(argv[2])
     /\ ValidOffset(TextValue(argv[2]))
    THEN 0
  ELSE IF /\ Len(argv) = 4
          /\ \A i \in 2 .. 4 : IsInt32Text(argv[i])
          /\ IsGregorianDate(TextValue(argv[2]), TextValue(argv[3]),
               TextValue(argv[4]))
    THEN 0
  ELSE 1

\* C11: grcal_query exits with status 0 exactly when it has one or three
\* arguments, each an optionally signed decimal integer whose magnitude
\* fits int32, and the conversion succeeds (the offset is in [0, 3074323],
\* or the date is a valid one); otherwise it exits with a status that is
\* not 0.  parseInt never overflows, grcal_offsetToDate and grcal_weekday
\* are never called with an offset outside [0, 3074323], and abort() is
\* never reached.
CliExitStatus ==
  /\ proc.fault = "none"
  /\ proc.pc # "aborted"
  /\ (proc.pc = "convertOffset") => ValidOffset(proc.in_offs)
  /\ (proc.pc = "exited") => proc.exit = ExpectedExit(proc.argv)

\* The process has exited with failure on an offset one past the greatest.
CliExitStatusWitness ==
  /\ proc.pc = "exited" /\ proc.exit = 1
  /\ proc.argv = <<"grcal_query">> \o <<Text(GRCAL_DAY_MAX + 1)>>
  /\ proc.in_offs = GRCAL_DAY_MAX + 1

====
